---- MODULE Spec2Model ----
(***************************************************************************)
(* Face-recognition-gated attendance workflow of the timeclock page        *)
(* (frontend/static/js/timeclock-handler.js with the helpers it calls in   *)
(* face-recognition.js and script.js).                                     *)
(*                                                                         *)
(* Time is counted in minutes (the window timer's period, 60000 ms).       *)
(* An instant is the number of minutes since 00:00 UTC of day 0; a JS Date *)
(* is modelled by its instant, and its local fields (getDate, getHours,    *)
(* getMinutes) are read through the device's UTC offset.                   *)
(* A string is a sequence of one-character strings.                        *)
(***************************************************************************)
EXTENDS Integers, Sequences, FiniteSets, Bags, TLC

(* ------------------------------ bounds -------------------------------- *)
\* samples that can be captured in one run of the page
MaxCaptures == 2
\* asynchronous operations and timeouts the page has started, pending at one time
MaxInFlight == 2
\* camera streams the device hands out before their tracks are stopped
MaxStreams == 2
\* minutes that pass while the page is open (Spec)
MaxTicks == 1
\* long waits (LongStep minutes each) while the page is open (SpecWindow)
MaxWaits == 2
\* GET /timeclock/today requests waiting for their answer at one time
MaxStatusFetches == 1

(* ------------------------- program constants -------------------------- *)
\* const MIN_CONFIDENCE = 0.3, in thousandths
MIN_CONFIDENCE == 300
\* openMin - 30 / closeMin + 30: the margin of the clock window, minutes
WINDOW_MARGIN == 30
MinutesPerHour == 60
MinutesPerDay == 1440

NoSample == 0
NoAction == "null"
NoDate == -1

(* ------------------------- strings and numbers ------------------------ *)
DigitChars == <<"0", "1", "2", "3", "4", "5", "6", "7", "8", "9">>

\* the value of one decimal digit character
DigitVal(c) == CHOOSE d \in 0..9 : DigitChars[d + 1] = c

\* Number("09") = 9: a string of decimal digits read as a number
RECURSIVE ToNumber(_)
ToNumber(s) ==
  IF s = <<>> THEN 0
  ELSE 10 * ToNumber(SubSeq(s, 1, Len(s) - 1)) + DigitVal(s[Len(s)])

\* "09:30".split(':'): the pieces of s between the separators
RECURSIVE SplitAt(_, _, _)
SplitAt(s, sep, piece) ==
  IF s = <<>> THEN <<piece>>
  ELSE IF Head(s) = sep THEN <<piece>> \o SplitAt(Tail(s), sep, <<>>)
  ELSE SplitAt(Tail(s), sep, Append(piece, Head(s)))

Split(s, sep) == SplitAt(s, sep, <<>>)

\* const [h, m] = time.split(':').map(Number)
ParseHourMin(s) ==
  LET parts == Split(s, ":")
  IN  [hour |-> ToNumber(parts[1]), min |-> ToNumber(parts[2])]

\* an "HH:MM" string as the backend stores it
TimeString(h, m) ==
  <<DigitChars[(h \div 10) + 1], DigitChars[(h % 10) + 1], ":",
    DigitChars[(m \div 10) + 1], DigitChars[(m % 10) + 1]>>

(* ------------------------------ JS Date ------------------------------- *)
\* the local calendar day of an instant on a device with UTC offset tz
LocalDay(t, tz) == (t + tz) \div MinutesPerDay

\* the local minute of the day (getHours() * 60 + getMinutes())
LocalMinuteOfDay(t, tz) == (t + tz) % MinutesPerDay

\* new Date(now.getFullYear(), now.getMonth(), now.getDate()): local midnight
LocalMidnight(t, tz) == LocalDay(t, tz) * MinutesPerDay - tz

\* date.setHours(h, m, 0, 0): the local day is kept, the time of day is
\* MakeTime(h, m), which carries minutes outside 0..59 into the hours and
\* hours outside 0..23 into the date
SetHours(date, h, m, tz) == LocalMidnight(date, tz) + h * MinutesPerHour + m

\* date.setDate(date.getDate() + n): the local time of day is kept
AddDays(date, n) == date + n * MinutesPerDay

(* ------------------------------- state -------------------------------- *)
VARIABLES
  gate,        \* the handler's variables and the page elements it writes
  policy,      \* storeHours, clockWindowStart, clockWindowEnd
  tasks,       \* bag of suspended async functions (the await each one is at)
  now,         \* the current instant (new Date())
  timerDue,    \* a minute has passed and the window timer has not fired yet
  elapsed,     \* [ticks, waits]: the time steps taken, for the bounds
  serverStore, \* the backend's record of this store (GET /stores/)
  deviceTz,    \* the UTC offset of the device's local time, minutes
  hist         \* history: how the last fetch ended, the samples captured so far,
               \* the last recognition outcome of the held sample

vars == <<gate, policy, tasks, now, timerDue, elapsed, serverStore, deviceTz, hist>>

(* -------------------------- Clock-Window Policy ----------------------- *)
\* let storeHours = null
NoStoreHours ==
  [present |-> FALSE, opening_time |-> <<>>, closing_time |-> <<>>, timezone |-> "UTC"]

\* the UTC offset of a timezone label, minutes (standard time)
TzOffset(label) ==
  CASE label = "UTC" -> 0
    [] label = "America/New_York" -> -300
    [] label = "Asia/Tokyo" -> 540

\* closeHour < openHour || (closeHour === openHour && closeMin < openMin)
IsOvernight(open, close) ==
  close.hour < open.hour \/ (close.hour = open.hour /\ close.min < open.min)

\* clockWindowStart.setHours(openHour, openMin - 30, 0, 0)
WindowStart(open, t, tz) ==
  SetHours(LocalMidnight(t, tz), open.hour, open.min - WINDOW_MARGIN, tz)

WindowEndWrongDay(open, close, t, tz) ==
  SetHours(LocalMidnight(t, tz), close.hour, close.min + WINDOW_MARGIN, tz)

\* clockWindowEnd.setHours(closeHour, closeMin + 30, 0, 0), then
\* setDate(getDate() + 1) for an overnight store
WindowEnd(open, close, t, tz) ==
  LET end == SetHours(LocalMidnight(t, tz), close.hour, close.min + WINDOW_MARGIN, tz)
  IN  IF IsOvernight(open, close) THEN AddDays(end, 1) ELSE end

\* the assignments of fetchStoreHours when the store has both times
LoadedPolicy(store, t, tz) ==
  LET open == ParseHourMin(store.opening_time)
      close == ParseHourMin(store.closing_time)
  IN  [storeHours |-> [present |-> TRUE,
                       opening_time |-> store.opening_time,
                       closing_time |-> store.closing_time,
                       timezone |-> IF store.timezone = "" THEN "UTC" ELSE store.timezone],
       clockWindowStart |-> WindowStart(open, t, tz),
       clockWindowEnd |-> WindowEnd(open, close, t, tz)]

\* the else branch of fetchStoreHours: no store hours configured
EmptyPolicy ==
  [storeHours |-> NoStoreHours, clockWindowStart |-> NoDate, clockWindowEnd |-> NoDate]

\* the catch branch of fetchStoreHours: only storeHours is reset
FailedPolicy(p) == [p EXCEPT !.storeHours = NoStoreHours]

UnrestrictedIgnoringFailure(p) ==
  p.clockWindowStart = NoDate \/ p.clockWindowEnd = NoDate

\* !storeHours || !clockWindowStart || !clockWindowEnd
Unrestricted(p) ==
  ~p.storeHours.present \/ p.clockWindowStart = NoDate \/ p.clockWindowEnd = NoDate

IsWithinWindowStrict(p, t) == t > p.clockWindowStart /\ t < p.clockWindowEnd

\* now >= clockWindowStart && now <= clockWindowEnd
IsWithinWindow(p, t) == t >= p.clockWindowStart /\ t <= p.clockWindowEnd

\* updateStatus(text, color)
UpdateStatus(g, text) == [g EXCEPT !.statusText = text]

UpdateClockButtonsStateNoFallback(g, p, t) ==
  IF IsWithinWindow(p, t)
  THEN UpdateStatus([g EXCEPT !.clockInDisabled = FALSE, !.clockOutDisabled = FALSE],
                    "Clock in/out allowed")
  ELSE UpdateStatus([g EXCEPT !.clockInDisabled = TRUE, !.clockOutDisabled = TRUE],
                    "Clock in/out allowed from-to (store time)")

\* updateClockButtonsState(), run at instant t
UpdateClockButtonsState(g, p, t) ==
  IF Unrestricted(p)
  THEN [g EXCEPT !.clockInDisabled = FALSE, !.clockOutDisabled = FALSE]
  ELSE IF IsWithinWindow(p, t)
  THEN UpdateStatus([g EXCEPT !.clockInDisabled = FALSE, !.clockOutDisabled = FALSE],
                    "Clock in/out allowed")
  ELSE UpdateStatus([g EXCEPT !.clockInDisabled = TRUE, !.clockOutDisabled = TRUE],
                    "Clock in/out allowed from-to (store time)")

\* the policy after GET /stores/ answered (ok) or failed, at instant t
FetchedPolicy(p, ok, store, t, tz) ==
  IF ~ok THEN FailedPolicy(p)
  ELSE IF store.found /\ store.opening_time # <<>> /\ store.closing_time # <<>>
  THEN LoadedPolicy(store, t, tz)
  ELSE EmptyPolicy

FetchOutcome(ok, store) ==
  IF ~ok THEN "error"
  ELSE IF store.found /\ store.opening_time # <<>> /\ store.closing_time # <<>>
  THEN "loaded" ELSE "nohours"

(* --------------------------- page and helpers ------------------------- *)
\* showLoading(show)
ShowLoading(g, show) == [g EXCEPT !.loading = show]

\* showError / showWarning / showInfo: one more toast on the page; detail is
\* the text a message quotes from an answer ("" when it quotes none)
ShowDetailedToast(g, kind, msg, detail, title) ==
  [g EXCEPT !.toasts = @ \cup {[kind |-> kind, msg |-> msg, detail |-> detail,
                                title |-> title]}]

ShowToast(g, kind, msg, title) == ShowDetailedToast(g, kind, msg, "", title)

\* a toast removes itself 4 seconds after it is shown: the page shows the
\* toasts of the step just taken
Settled(g) == [g EXCEPT !.toasts = {}]

ShowError(g, msg) == ShowToast(g, "error", msg, "Error")
ShowInfo(g, msg) == ShowToast(g, "info", msg, "Info")
ShowWarning(g, msg) == ShowToast(g, "warning", msg, "Warning")

\* confirmPhotoBtn.disabled = d (with its opacity and cursor)
SetConfirmDisabled(g, d) == [g EXCEPT !.confirmDisabled = d]

\* stopCamera(video): the tracks of the attached stream are stopped
StopCamera(g) ==
  IF g.srcObject
  THEN [g EXCEPT !.srcObject = FALSE, !.liveStreams = @ - 1]
  ELSE g

\* hideCamera()
HideCamera(g) ==
  UpdateStatus(
    [StopCamera(g) EXCEPT !.cameraShown = FALSE,
                          !.previewShown = FALSE,
                          !.clockButtonsShown = TRUE,
                          !.confirmDisabled = FALSE,
                          !.currentAction = NoAction,
                          !.capturedData = NoSample],
    "Ready to Clock In or Clock Out")

\* showCamera(action) up to its first await
ShowCameraStart(g, action) ==
  UpdateStatus(
    [g EXCEPT !.currentAction = action,
              !.clockButtonsShown = FALSE,
              !.previewShown = FALSE,
              !.cameraShown = TRUE],
    IF action = "clock-in" THEN "Position your face in the camera for Clock In"
    ELSE "Position your face in the camera for Clock Out")

\* the page's markup is not part of the sources: each button is taken to sit in
\* the container whose display the handler toggles around it
ClockButtonsClickable(g) == g.clockButtonsShown
CameraButtonsClickable(g) == g.cameraShown
PreviewButtonsClickable(g) == g.previewShown
\* "Any state may be cancelled by the operator": the cancel control can be
\* clicked whenever the gate is not Idle
CancelBtnClickable(g) == ~g.clockButtonsShown
\* document.getElementById('addAppearanceBtn') finds a button
AddAppearanceBtnExists == TRUE

(* ------------------------------- tasks -------------------------------- *)
Task(kind, sample, arg, verified) ==
  [kind |-> kind, sample |-> sample, arg |-> arg, verified |-> verified]

Pending(kind) == {t \in BagToSet(tasks) : t.kind = kind}
Started(t) == tasks (+) SetToBag({t})
Resumed(t) == tasks (-) SetToBag({t})
Continued(t, u) == (tasks (-) SetToBag({t})) (+) SetToBag({u})
Count(kind) == BagCardinality([t \in Pending(kind) |-> tasks[t]])

FetchStoresTask == Task("fetchStores", NoSample, "", NoSample)
FetchStatusTask == Task("fetchStatus", NoSample, "", NoSample)

(* -------------------------- recognition gate -------------------------- *)
\* a confidence in thousandths; MissingConfidence is an answer without the field
MissingConfidence == -1
Confidences == {MissingConfidence, 299, 300}

\* employee.confidence || 0
ReadConfidence(c) == IF c = MissingConfidence THEN 0 ELSE c

BelowMinConfidenceInclusive(c) == ReadConfidence(c) <= MIN_CONFIDENCE

\* confidence < MIN_CONFIDENCE
BelowMinConfidence(c) == ReadConfidence(c) < MIN_CONFIDENCE

\* what recognizeFace resolves to: no match, or a match with a confidence
NoMatch == [success |-> FALSE, confidence |-> MissingConfidence]
Match(c) == [success |-> TRUE, confidence |-> c]
RecognizeResults == {NoMatch} \cup {Match(c) : c \in Confidences}

\* recognitionResult.innerHTML: the heading, and the confidence it prints as
\* (confidence * 100).toFixed(1) percent where it prints one
Shown(heading, c) == [heading |-> heading, confidence |-> c]
NothingShown == Shown("", MissingConfidence)

\* the branches of captureFace after recognizeFace resolved (lines 371-587)
ApplyRecognition(g, r) ==
  IF r.success
  THEN IF BelowMinConfidence(r.confidence)
       THEN UpdateStatus(
              [SetConfirmDisabled(g, TRUE) EXCEPT
                 !.recognitionResult = Shown("Low Confidence Match", ReadConfidence(r.confidence))],
              "Face not recognized. Please contact your manager to register your face.")
       ELSE UpdateStatus(
              [SetConfirmDisabled(g, FALSE) EXCEPT
                 !.recognitionResult = Shown("Face Recognized", ReadConfidence(r.confidence))],
              "Face recognized")
  ELSE UpdateStatus(
         [SetConfirmDisabled(g, TRUE) EXCEPT
            !.recognitionResult = Shown("Face Not Recognized", MissingConfidence),
            !.listeners = IF AddAppearanceBtnExists THEN @ + 1 ELSE @],
         "Face not recognized. Cannot proceed until recognized.")

\* the branches of the addAppearanceBtn listener after its recognizeFace
\* resolved (lines 509-574)
ApplyRetryRecognition(g, r) ==
  IF r.success
  THEN IF BelowMinConfidence(r.confidence)
       THEN UpdateStatus(
              [SetConfirmDisabled(g, TRUE) EXCEPT
                 !.recognitionResult = Shown("Still Low Confidence", ReadConfidence(r.confidence))],
              "Face still not recognized. Please contact your manager.")
       ELSE UpdateStatus(
              [SetConfirmDisabled(g, FALSE) EXCEPT
                 !.recognitionResult = Shown("Face Recognized", ReadConfidence(r.confidence))],
              "Face recognized")
  ELSE UpdateStatus([g EXCEPT !.recognitionResult = Shown("Still Not Recognized", MissingConfidence)],
                    "Face still not recognized. Please retake photo.")

\* the outcome the gate is in after a recognition result
Outcome(r) ==
  IF ~r.success THEN "NotRecognized"
  ELSE IF ReadConfidence(r.confidence) >= MIN_CONFIDENCE THEN "Confirmed"
  ELSE "LowConfidence"

\* history: the outcome of the last recognition of the sample the gate holds
\* ("none" from the moment another sample, or none, is held)
Recognized(h, g, sample, r) ==
  IF sample = g.capturedData THEN [h EXCEPT !.heldOutcome = Outcome(r)] ELSE h

Held(h, g) ==
  IF g.capturedData = gate.capturedData THEN h ELSE [h EXCEPT !.heldOutcome = "none"]

\* the page as a handler finds it
page == Settled(gate)

\* what the gate and the store-hours policy have started and not finished:
\* suspended functions and scheduled timeouts
InFlight == BagCardinality(tasks) - Count("fetchStatus") + gate.statusTimers

(* ------------------------------ showCamera ---------------------------- *)
\* clockInBtn / clockOutBtn click: showCamera(action), up to initializeCamera
ClockBtnClick(action) ==
  /\ ClockButtonsClickable(page)
  /\ IF action = "clock-in" THEN ~gate.clockInDisabled ELSE ~gate.clockOutDisabled
  /\ InFlight < MaxInFlight
  /\ gate.liveStreams + Count("initCamera") < MaxStreams
  /\ gate' = ShowCameraStart(page, action)
  /\ tasks' = Started(Task("initCamera", NoSample, "", NoSample))
  /\ UNCHANGED <<policy, now, timerDue, elapsed, serverStore, deviceTz, hist>>

ClockInBtnClick == ClockBtnClick("clock-in")
ClockOutBtnClick == ClockBtnClick("clock-out")

\* retakeBtn click: the preview is hidden and showCamera(currentAction) runs
RetakeBtnClick ==
  /\ PreviewButtonsClickable(page)
  /\ InFlight < MaxInFlight
  /\ gate.liveStreams + Count("initCamera") < MaxStreams
  /\ gate' = ShowCameraStart(page, gate.currentAction)
  /\ tasks' = Started(Task("initCamera", NoSample, "", NoSample))
  /\ UNCHANGED <<policy, now, timerDue, elapsed, serverStore, deviceTz, hist>>

\* showCamera after initializeCamera resolved: with a stream (attached to the
\* video element, whatever was attached before) or with an error
ShowCamera_CameraDone(ok) ==
  \E t \in Pending("initCamera") :
    /\ IF ~ok
       THEN /\ gate' = HideCamera(ShowError(page, "Failed to access camera"))
            /\ tasks' = Resumed(t)
       ELSE LET g == [page EXCEPT !.srcObject = TRUE, !.liveStreams = @ + 1]
            IN  IF g.modelsLoaded
                THEN /\ gate' = UpdateStatus(ShowLoading(g, FALSE),
                                             "Ready! Position your face in the camera")
                     /\ tasks' = Resumed(t)
                ELSE /\ gate' = UpdateStatus(ShowLoading(g, TRUE),
                                             "Loading face recognition models...")
                     /\ tasks' = Continued(t, Task("loadModels", NoSample, "", NoSample))
    /\ hist' = Held(hist, gate')
    /\ UNCHANGED <<policy, now, timerDue, elapsed, serverStore, deviceTz>>

\* showCamera after loadFaceApiModels resolved
ShowCamera_ModelsDone(ok) ==
  \E t \in Pending("loadModels") :
    /\ IF ok
       THEN gate' = UpdateStatus([ShowLoading(page, FALSE) EXCEPT !.modelsLoaded = TRUE],
                                 "Ready! Position your face in the camera")
       ELSE gate' = HideCamera(ShowError(ShowLoading(page, FALSE),
                                         "Failed to load face recognition models"))
    /\ tasks' = Resumed(t)
    /\ hist' = Held(hist, gate')
    /\ UNCHANGED <<policy, now, timerDue, elapsed, serverStore, deviceTz>>

\* cancelCameraBtn click: hideCamera()
CancelCameraBtnClick ==
  /\ CancelBtnClickable(page)
  /\ gate' = HideCamera(page)
  /\ hist' = Held(hist, gate')
  /\ UNCHANGED <<policy, tasks, now, timerDue, elapsed, serverStore, deviceTz>>

(* ------------------------------ captureFace --------------------------- *)
\* captureBtn click: captureFace() up to captureFaceFromVideo, which draws the
\* current video frame before its first await
CaptureBtnClick ==
  /\ CameraButtonsClickable(page)
  /\ InFlight < MaxInFlight
  /\ hist.captured + Count("detect") < MaxCaptures
  /\ gate' = UpdateStatus(ShowLoading(page, TRUE), "Detecting face...")
  /\ tasks' = Started(Task("detect", NoSample,
                           IF gate.srcObject THEN "frame" ELSE "noframe", NoSample))
  /\ UNCHANGED <<policy, now, timerDue, elapsed, serverStore, deviceTz, hist>>

\* captureFace after captureFaceFromVideo resolved; a face can only be found in
\* a frame of a live stream
CaptureFace_Detected(ok) ==
  \E t \in Pending("detect") :
    /\ ok => t.arg = "frame"
    /\ IF ~ok
       THEN /\ gate' = ShowError(ShowLoading(page, FALSE), "Failed to detect face")
            /\ tasks' = Resumed(t)
            /\ hist' = hist
       ELSE LET sample == hist.captured + 1
                g == [StopCamera(ShowLoading(page, FALSE)) EXCEPT
                        !.capturedData = sample,
                        !.modelsLoaded = TRUE,
                        !.cameraShown = FALSE,
                        !.previewShown = TRUE]
            IN  /\ gate' = ShowLoading(
                             UpdateStatus(SetConfirmDisabled(g, TRUE), "Recognizing face..."),
                             TRUE)
                /\ tasks' = Continued(t, Task("recognize", sample, "", NoSample))
                /\ hist' = [hist EXCEPT !.captured = sample, !.heldOutcome = "none"]
    /\ UNCHANGED <<policy, now, timerDue, elapsed, serverStore, deviceTz>>

\* captureFace after recognizeFace resolved
CaptureFace_Recognized(r) ==
  \E t \in Pending("recognize") :
    /\ gate' = ApplyRecognition(ShowLoading(page, FALSE), r)
    /\ tasks' = Resumed(t)
    /\ hist' = Recognized(hist, gate, t.sample, r)
    /\ UNCHANGED <<policy, now, timerDue, elapsed, serverStore, deviceTz>>

(* --------------------------- enrollment retry ------------------------- *)
\* one click listener of addAppearanceBtn up to its await, for the name typed
RetryListenerStart(g, name) ==
  IF name = "" THEN ShowError(g, "Please enter your name")
  ELSE IF g.capturedData = NoSample
  THEN ShowError(g, "No face data captured. Please retake photo.")
  ELSE UpdateStatus(ShowLoading(g, TRUE), "Adding new appearance...")

\* addAppearanceBtn click: every registered listener runs
AddAppearanceBtnClick(name) ==
  /\ AddAppearanceBtnExists
  /\ PreviewButtonsClickable(page)
  /\ gate.listeners > 0
  /\ gate' = RetryListenerStart(page, name)
  /\ IF name = "" \/ gate.capturedData = NoSample
     THEN tasks' = tasks
     ELSE /\ InFlight + gate.listeners <= MaxInFlight
          /\ tasks' = tasks (+) (Task("addAppearance", gate.capturedData, name, NoSample)
                                   :> gate.listeners)
  /\ UNCHANGED <<policy, now, timerDue, elapsed, serverStore, deviceTz, hist>>

\* the listener after POST /face/add-appearance answered: "ok" (data.success),
\* "refused" (an answer without success) or "failed" (apiPost threw)
AddAppearance_Added(answer) ==
  \E t \in Pending("addAppearance") :
    /\ IF answer = "ok"
       THEN LET g == UpdateStatus(
                       ShowLoading(ShowInfo(ShowLoading(page, FALSE),
                                            "New appearance added successfully!"), TRUE),
                       "Retrying face recognition...")
            IN  IF gate.capturedData = NoSample
                \* capturedData.descriptor throws inside the try block
                THEN /\ gate' = ShowError(ShowLoading(g, FALSE), "Failed to add appearance")
                     /\ tasks' = Resumed(t)
                ELSE /\ gate' = g
                     /\ tasks' = Continued(t, Task("reRecognize", gate.capturedData, "", NoSample))
       ELSE /\ gate' = ShowError(ShowLoading(page, FALSE), "Failed to add appearance")
            /\ tasks' = Resumed(t)
    /\ UNCHANGED <<policy, now, timerDue, elapsed, serverStore, deviceTz, hist>>

\* the listener after its recognizeFace resolved
AddAppearance_Recognized(r) ==
  \E t \in Pending("reRecognize") :
    /\ gate' = ApplyRetryRecognition(ShowLoading(page, FALSE), r)
    /\ tasks' = Resumed(t)
    /\ hist' = Recognized(hist, gate, t.sample, r)
    /\ UNCHANGED <<policy, now, timerDue, elapsed, serverStore, deviceTz>>

(* ------------------------- confirmAndProcess steps --------------------- *)
\* confirmPhotoBtn click: confirmAndProcess() up to the verifying recognizeFace
ConfirmPhotoBtnClick ==
  /\ PreviewButtonsClickable(page)
  /\ ~gate.confirmDisabled
  /\ IF gate.capturedData = NoSample
     THEN /\ gate' = ShowWarning(page, "No face data captured")
          /\ tasks' = tasks
     ELSE /\ InFlight < MaxInFlight
          /\ gate' = UpdateStatus(ShowLoading(page, TRUE), "Verifying face recognition...")
          /\ tasks' = Started(Task("verify", gate.capturedData, "", NoSample))
  /\ UNCHANGED <<policy, now, timerDue, elapsed, serverStore, deviceTz, hist>>

(* ---------------------------- clock request --------------------------- *)
\* the JSON object of an answer of POST /timeclock/clock-in-face or
\* /timeclock/clock-out-face; "" is a field the object does not have
Body(error, message, error_code, metadata, auto_clockout) ==
  [error |-> error, message |-> message, error_code |-> error_code,
   metadata |-> metadata, auto_clockout |-> auto_clockout]

NoBody == Body("", "", "", "", FALSE)

\* a text: plain characters, or the JSON text of an object
PlainText(chars) == [json |-> FALSE, chars |-> chars, body |-> NoBody]
JsonText(body) == [json |-> TRUE, chars |-> "", body |-> body]

\* what fetch() gives apiPost: a rejection (network failure), or a response
\* with res.ok and its text
Response(network, ok, text) == [network |-> network, ok |-> ok, text |-> text]

\* apiPost(path, data): the parsed object, or a thrown Error that keeps only a
\* message: errorJson.error || errorJson.message || responseText
ApiPost(resp) ==
  IF ~resp.network
  THEN [threw |-> TRUE, message |-> PlainText("Failed to fetch"), data |-> NoBody]
  ELSE IF ~resp.ok
  THEN IF resp.text.json
       THEN [threw |-> TRUE,
             message |-> IF resp.text.body.error # "" THEN PlainText(resp.text.body.error)
                         ELSE IF resp.text.body.message # "" THEN PlainText(resp.text.body.message)
                         ELSE resp.text,
             data |-> NoBody]
       \* JSON.parse throws a SyntaxError, which is rethrown
       ELSE [threw |-> TRUE, message |-> PlainText("Unexpected token"), data |-> NoBody]
  ELSE IF resp.text.json
  THEN [threw |-> FALSE, message |-> PlainText(""), data |-> resp.text.body]
  \* an empty or non-JSON body of a 2xx answer: { success: true, ... }
  ELSE [threw |-> FALSE, message |-> PlainText(""), data |-> NoBody]

\* clockInWithFace / clockOutWithFace: the outcome returned to the gate. The
\* caught Error has no response property; its message is tried as JSON
ClockWithFace(resp) ==
  LET r == ApiPost(resp)
      \* error.message as the toast prints it
      message == IF r.message.json THEN "{...}" ELSE r.message.chars
      errorData == IF r.message.json /\ r.message.body.error # ""
                   THEN r.message.body
                   ELSE Body(message, "", "", "", FALSE)
  IN  IF ~r.threw
      THEN [success |-> TRUE, auto_clockout |-> r.data.auto_clockout,
            error |-> "", error_code |-> "", metadata |-> ""]
      ELSE [success |-> FALSE, auto_clockout |-> FALSE,
            error |-> IF errorData.error # "" THEN errorData.error ELSE message,
            error_code |-> errorData.error_code, metadata |-> errorData.metadata]

\* result?.error_code || 'UNKNOWN_ERROR'
ErrorCode(result) == IF result.error_code = "" THEN "UNKNOWN_ERROR" ELSE result.error_code

Accepted(auto_clockout) ==
  Response(TRUE, TRUE, JsonText(Body("", "Clocked in", "", "", auto_clockout)))
Rejected(error, error_code, metadata) ==
  Response(TRUE, FALSE, JsonText(Body(error, "", error_code, metadata, FALSE)))
NetworkFailure == Response(FALSE, FALSE, PlainText(""))

\* the answers of the backend to a clock request
SubmitResponses ==
  {Accepted(FALSE), Accepted(TRUE),
   Rejected("Outside clock window", "OUTSIDE_CLOCK_WINDOW", "window"),
   Rejected("Store is closed", "STORE_CLOSED_LOGIN", "window"),
   Rejected("", "OUTSIDE_CLOCK_WINDOW", "window"),
   Rejected("Employee not found", "", ""),
   Response(TRUE, FALSE, PlainText("Internal Server Error")),
   NetworkFailure}

(* --------------------------- confirmAndProcess ------------------------ *)
\* the codes of a rejection for the store's hours
HoursCodes == {"OUTSIDE_CLOCK_WINDOW", "STORE_CLOSED_LOGIN"}

\* result?.error || 'Failed to process clock action'
ErrorMsg(result) ==
  IF result.error = "" THEN "Failed to process clock action" ELSE result.error

SubmissionFailedDiscarding(g, result) ==
  ShowDetailedToast(HideCamera(g), "error", "Failed", ErrorMsg(result), "Error")

\* the else branch of confirmAndProcess (lines 654-685) up to fetchStoreHours():
\* the toast quotes the error message, shows the allowed window when the
\* outcome has metadata, and is titled by the error code
SubmissionFailed(g, result) ==
  ShowDetailedToast(
    UpdateStatus(g, "Failed"),
    "error",
    IF result.metadata # ""
    THEN (IF g.currentAction = "clock-in" THEN "Failed to clock in, allowed window"
          ELSE "Failed to clock out, allowed window")
    ELSE (IF g.currentAction = "clock-in" THEN "Failed to clock in"
          ELSE "Failed to clock out"),
    ErrorMsg(result),
    IF ErrorCode(result) \in HoursCodes THEN "Store Hours Restriction" ELSE "Error")

\* setTimeout(fetchCurrentClockStatus, 1000)
ScheduleStatusRefresh(g) == [g EXCEPT !.statusTimers = @ + 1]

\* result is undefined when currentAction is neither 'clock-in' nor 'clock-out'
UndefinedResult ==
  [success |-> FALSE, auto_clockout |-> FALSE, error |-> "", error_code |-> "",
   metadata |-> ""]

AfterRejectionNoRefresh(t) == Resumed(t)

\* fetchStoreHours() at the end of the failure branch: the function that was
\* waiting for the clock request now waits for GET /stores/
AfterRejection(t) == Continued(t, FetchStoresTask)

VerifyFailedIgnored(ok) == TRUE

\* !verifyResult.success aborts the submission
VerifyPassed(ok) == ok

\* confirmAndProcess after the verifying recognizeFace resolved: the clock
\* request is dispatched for currentAction with capturedData as they are now
ConfirmAndProcess_Verified(r) ==
  \E t \in Pending("verify") :
    /\ IF ~VerifyPassed(r.success)
       THEN /\ gate' = ShowError(ShowLoading(page, FALSE),
                                 "Face not recognized. Please ensure your face is recognized before proceeding.")
            /\ tasks' = Resumed(t)
       ELSE LET g == UpdateStatus(page, "Processing...")
            IN  IF gate.currentAction = NoAction
                \* neither branch: result stays undefined
                THEN /\ gate' = SubmissionFailed(ShowLoading(g, FALSE), UndefinedResult)
                     /\ tasks' = AfterRejection(t)
                ELSE IF gate.capturedData = NoSample
                \* capturedData.descriptor throws: the async function rejects
                THEN /\ gate' = [g EXCEPT !.unhandled = TRUE]
                     /\ tasks' = Resumed(t)
                ELSE /\ gate' = g
                     /\ tasks' = Continued(t, Task("submit", gate.capturedData, gate.currentAction,
                                                   IF r.success THEN t.sample ELSE NoSample))
    /\ UNCHANGED <<policy, now, timerDue, elapsed, serverStore, deviceTz, hist>>

\* confirmAndProcess after clockInWithFace / clockOutWithFace resolved
ConfirmAndProcess_Submitted(resp) ==
  \E t \in Pending("submit") :
    LET result == ClockWithFace(resp)
    IN  /\ IF result.success
           THEN /\ gate' = ScheduleStatusRefresh(HideCamera(
                             ShowInfo(
                               UpdateStatus(
                                 IF result.auto_clockout
                                 THEN ShowInfo(ShowLoading(page, FALSE), "Auto clocked out")
                                 ELSE ShowLoading(page, FALSE),
                                 IF gate.currentAction = "clock-in" THEN "Clocked In Successfully!"
                                 ELSE "Clocked Out Successfully!"),
                               IF gate.currentAction = "clock-in" THEN "Clocked In Successfully!"
                               ELSE "Clocked Out Successfully!")))
                /\ tasks' = Resumed(t)
           ELSE /\ gate' = SubmissionFailed(ShowLoading(page, FALSE), result)
                /\ tasks' = AfterRejection(t)
        /\ hist' = Held(hist, gate')
        /\ UNCHANGED <<policy, now, timerDue, elapsed, serverStore, deviceTz>>

(* --------------------------- attendance status ------------------------ *)
\* a timeout set by setTimeout(fetchCurrentClockStatus, 1000) fires:
\* fetchCurrentClockStatus() up to its await
StatusTimeout ==
  /\ gate.statusTimers > 0
  /\ Count("fetchStatus") < MaxStatusFetches
  /\ gate' = [page EXCEPT !.statusTimers = @ - 1]
  /\ tasks' = Started(FetchStatusTask)
  /\ UNCHANGED <<policy, now, timerDue, elapsed, serverStore, deviceTz, hist>>

\* setInterval(fetchCurrentClockStatus, 30000) fires
StatusPoll ==
  /\ Count("fetchStatus") < MaxStatusFetches
  /\ gate' = page
  /\ tasks' = Started(FetchStatusTask)
  /\ UNCHANGED <<policy, now, timerDue, elapsed, serverStore, deviceTz, hist>>

\* fetchCurrentClockStatus after GET /timeclock/today answered: with an entry
\* that has no clock_out ("active"), without one ("none"), or with an error
FetchCurrentClockStatus_Done(answer) ==
  \E t \in Pending("fetchStatus") :
    /\ gate' = [page EXCEPT !.statusCard = IF answer = "active" THEN "shown" ELSE "hidden"]
    /\ tasks' = Resumed(t)
    /\ UNCHANGED <<policy, now, timerDue, elapsed, serverStore, deviceTz, hist>>

(* ------------------------- store hours and timers --------------------- *)
\* fetchStoreHours() after GET /stores/ answered (ok) or failed, to its end
FetchStoreHours_Done(ok) ==
  \E t \in Pending("fetchStores") :
    /\ policy' = FetchedPolicy(policy, ok, serverStore, now, deviceTz)
    /\ gate' = UpdateClockButtonsState(page, policy', now)
    /\ tasks' = Resumed(t)
    /\ hist' = [hist EXCEPT !.lastFetch = FetchOutcome(ok, serverStore)]
    /\ UNCHANGED <<now, timerDue, elapsed, serverStore, deviceTz>>

\* setInterval(() => updateClockButtonsState(), 60000) fires
WindowTimer ==
  /\ timerDue
  /\ gate' = UpdateClockButtonsState(page, policy, now)
  /\ timerDue' = FALSE
  /\ UNCHANGED <<policy, tasks, now, elapsed, serverStore, deviceTz, hist>>

\* a minute passes; the window timer fires once in every minute
Tick ==
  /\ ~timerDue
  /\ elapsed.ticks < MaxTicks
  /\ now' = now + 1
  /\ timerDue' = TRUE
  /\ elapsed' = [elapsed EXCEPT !.ticks = @ + 1]
  /\ gate' = page
  /\ UNCHANGED <<policy, tasks, serverStore, deviceTz, hist>>

\* six hours pass with the page left alone: the window timer fires in each
\* minute, and what its last firing wrote is what the page shows
LongStep == 6 * MinutesPerHour
Wait ==
  /\ ~timerDue
  /\ elapsed.waits < MaxWaits
  /\ now' = now + LongStep
  /\ gate' = UpdateClockButtonsState(page, policy, now')
  /\ elapsed' = [elapsed EXCEPT !.waits = @ + 1]
  /\ UNCHANGED <<policy, tasks, timerDue, serverStore, deviceTz, hist>>

(* ------------------------------- Init --------------------------------- *)
\* the instant of h:m UTC on a day
At(day, h, m) == day * MinutesPerDay + h * MinutesPerHour + m

StoreRecord(found, open, close, tz) ==
  [found |-> found, opening_time |-> open, closing_time |-> close, timezone |-> tz]

\* the page after DOMContentLoaded ran: nothing captured, the clock buttons
\* shown, fetchStoreHours() waiting for its answer
InitGate ==
  [currentAction |-> NoAction, capturedData |-> NoSample,
   srcObject |-> FALSE, liveStreams |-> 0, modelsLoaded |-> FALSE,
   clockButtonsShown |-> TRUE, cameraShown |-> FALSE, previewShown |-> FALSE,
   confirmDisabled |-> FALSE, clockInDisabled |-> FALSE, clockOutDisabled |-> FALSE,
   statusText |-> "", loading |-> FALSE, recognitionResult |-> NothingShown,
   toasts |-> {},
   listeners |-> 0, unhandled |-> FALSE,
   statusCard |-> "hidden", statusTimers |-> 0]

InitHist ==
  [lastFetch |-> "none",
   captured |-> 0, heldOutcome |-> "none"]

InitCommon ==
  /\ gate = InitGate
  /\ policy = EmptyPolicy
  /\ tasks = SetToBag({FetchStoresTask, FetchStatusTask})
  /\ timerDue = FALSE
  /\ elapsed = [ticks |-> 0, waits |-> 0]
  /\ hist = InitHist

\* Spec: a store open 09:00-21:00 on a device in the store's timezone; the
\* page is opened at the last minute of the clock window
SpecStores ==
  {StoreRecord(TRUE, TimeString(9, 0), TimeString(21, 0), "UTC")}
SpecNows == {At(1, 21, 30)}

Init ==
  /\ InitCommon
  /\ now \in SpecNows
  /\ serverStore \in SpecStores
  /\ deviceTz = 0

\* the steps of the gate and of fetchStoreHours
GateNext ==
  \/ ClockInBtnClick
  \/ ClockOutBtnClick
  \/ RetakeBtnClick
  \/ \E ok \in BOOLEAN : ShowCamera_CameraDone(ok)
  \/ \E ok \in BOOLEAN : ShowCamera_ModelsDone(ok)
  \/ CancelCameraBtnClick
  \/ CaptureBtnClick
  \/ \E ok \in BOOLEAN : CaptureFace_Detected(ok)
  \/ \E r \in RecognizeResults : CaptureFace_Recognized(r)
  \/ \E name \in {"", "Jane Doe"} : AddAppearanceBtnClick(name)
  \/ \E answer \in {"ok", "refused", "failed"} : AddAppearance_Added(answer)
  \/ \E r \in RecognizeResults : AddAppearance_Recognized(r)
  \/ ConfirmPhotoBtnClick
  \/ \E r \in RecognizeResults : ConfirmAndProcess_Verified(r)
  \/ \E resp \in SubmitResponses : ConfirmAndProcess_Submitted(resp)
  \/ \E ok \in BOOLEAN : FetchStoreHours_Done(ok)

\* SpecGate: the gate and the store hours at one instant
SpecGate == Init /\ [][GateNext]_vars

\* Spec: the gate, the store hours and the passing of time. The requests of the
\* attendance status card are left waiting: what they do is in SpecStatus
Next ==
  \/ GateNext
  \/ WindowTimer
  \/ Tick

Spec == Init /\ [][Next]_vars

(* -------------------- the gate and the attendance status -------------- *)
\* SpecStatus: the gate with the attendance status card and its refreshes, at
\* one instant. It starts where the page is after a first attempt that the
\* operator cancelled once the captured face had been recognized: the models
\* are loaded (loadFaceApiModels is not awaited again) and one sample has been
\* captured and discarded
InitStatus ==
  /\ gate = HideCamera([InitGate EXCEPT !.modelsLoaded = TRUE,
                                        !.recognitionResult = Shown("Face Recognized", 300)])
  /\ policy = EmptyPolicy
  /\ tasks = SetToBag({FetchStoresTask, FetchStatusTask})
  /\ timerDue = FALSE
  /\ elapsed = [ticks |-> 0, waits |-> 0]
  /\ hist = [InitHist EXCEPT !.captured = 1]
  /\ now \in SpecNows
  /\ serverStore \in SpecStores
  /\ deviceTz = 0

NextStatus ==
  \/ ClockInBtnClick
  \/ ClockOutBtnClick
  \/ RetakeBtnClick
  \/ \E ok \in BOOLEAN : ShowCamera_CameraDone(ok)
  \/ CancelCameraBtnClick
  \/ CaptureBtnClick
  \/ \E ok \in BOOLEAN : CaptureFace_Detected(ok)
  \/ \E r \in RecognizeResults : CaptureFace_Recognized(r)
  \/ \E name \in {"", "Jane Doe"} : AddAppearanceBtnClick(name)
  \/ \E answer \in {"ok", "refused", "failed"} : AddAppearance_Added(answer)
  \/ \E r \in RecognizeResults : AddAppearance_Recognized(r)
  \/ ConfirmPhotoBtnClick
  \/ \E r \in RecognizeResults : ConfirmAndProcess_Verified(r)
  \/ \E resp \in SubmitResponses : ConfirmAndProcess_Submitted(resp)
  \/ \E ok \in BOOLEAN : FetchStoreHours_Done(ok)
  \/ StatusTimeout
  \/ StatusPoll
  \/ \E answer \in {"active", "none", "error"} : FetchCurrentClockStatus_Done(answer)

SpecStatus == InitStatus /\ [][NextStatus]_vars

(* ------------------- the Clock-Window Policy on its own --------------- *)
\* SpecWindow: the page is opened at some time of day 1 on a device in some
\* timezone, for a store with some hours or none, and is then left alone:
\* only fetchStoreHours, the window timer and the passing of time act
WindowTimes == {<<0, 15>>, <<2, 0>>, <<9, 0>>, <<21, 0>>, <<22, 0>>, <<23, 45>>}
WindowTimeStrings == {TimeString(hm[1], hm[2]) : hm \in WindowTimes}
WindowStores ==
  {StoreRecord(TRUE, o, c, tz) :
     o \in WindowTimeStrings, c \in WindowTimeStrings, tz \in {"UTC", "America/New_York"}}
  \cup {StoreRecord(TRUE, <<>>, TimeString(21, 0), "UTC"),
        StoreRecord(TRUE, TimeString(9, 0), <<>>, "UTC"),
        StoreRecord(TRUE, TimeString(9, 0), TimeString(21, 0), ""),
        StoreRecord(FALSE, <<>>, <<>>, "")}
DeviceTzs == {TzOffset("UTC"), TzOffset("America/New_York"), TzOffset("Asia/Tokyo")}
WindowNows ==
  {At(1, h, m) : h \in 0..23, m \in {0, 30}} \cup {At(1, h, m) : h \in {0, 23}, m \in {15, 45}}

InitWindow ==
  /\ InitCommon
  /\ now \in WindowNows
  /\ serverStore \in WindowStores
  /\ deviceTz \in DeviceTzs

NextWindow ==
  \/ \E ok \in BOOLEAN : FetchStoreHours_Done(ok)
  \/ WindowTimer
  \/ Tick
  \/ Wait

SpecWindow == InitWindow /\ [][NextWindow]_vars

(* ======================= properties of the gate ======================= *)
SubmitCount == Count("submit")
SubmitEnabled(g) == ~g.confirmDisabled
ShowCameraRuns == ClockInBtnClick \/ ClockOutBtnClick \/ RetakeBtnClick

\* C1: whenever a recognition that returned a match is applied, by captureFace
\* or by the enrollment retry, a confidence of 0.30 or more leaves the gate
\* Confirmed ("Face Recognized") with submit enabled, and a confidence below
\* 0.30, a missing one included, leaves it LowConfidence with submit disabled.
C1_ConfidenceThreshold ==
  [][\A c \in Confidences :
       (CaptureFace_Recognized(Match(c)) \/ AddAppearance_Recognized(Match(c)))
       => IF c # MissingConfidence /\ c >= 300
          THEN /\ gate'.recognitionResult = Shown("Face Recognized", c)
               /\ SubmitEnabled(gate')
          ELSE /\ gate'.recognitionResult.heading
                    \in {"Low Confidence Match", "Still Low Confidence"}
               /\ ~SubmitEnabled(gate')]_vars

\* a recognition with confidence exactly 0.30 was applied: Confirmed, submit enabled
C1_Witness ==
  /\ gate.recognitionResult = Shown("Face Recognized", 300)
  /\ hist.heldOutcome = "Confirmed"
  /\ SubmitEnabled(gate)

\* C2: while the last recognition outcome of the held sample is LowConfidence
\* or NotRecognized, the submit action is disabled.
C2_SubmitDisabledUnlessConfirmed ==
  (gate.capturedData # NoSample /\ hist.heldOutcome \in {"LowConfidence", "NotRecognized"})
    => ~SubmitEnabled(gate)

C7_FailOpen ==
  hist.lastFetch = "error" => ~gate.clockInDisabled /\ ~gate.clockOutDisabled

\* a window was loaded, a later fetch failed, the time is outside that window,
\* the timer has re-evaluated since, and the buttons are enabled
C7_Witness ==
  /\ hist.lastFetch = "error"
  /\ policy.clockWindowEnd # NoDate
  /\ now > policy.clockWindowEnd
  /\ elapsed.ticks > 0
  /\ ~timerDue
  /\ ~gate.clockInDisabled

\* C8: showCamera runs (clock-in button, clock-out button or retake) only at an
\* instant at which the clock window allows the action.
C8_WindowAllowsAtRequest ==
  [][ShowCameraRuns => (Unrestricted(policy) \/ IsWithinWindow(policy, now))]_vars

(* ------------------------ outcome of a clock request ------------------ *)
\* the gate is Idle: hideCamera() left the clock buttons shown, the camera and
\* preview views hidden, no requested action and no captured sample
Idle(g) ==
  /\ g.clockButtonsShown /\ ~g.cameraShown /\ ~g.previewShown
  /\ g.currentAction = NoAction
  /\ g.capturedData = NoSample

\* no camera stream is live: none attached to the video element, none elsewhere
CameraReleased(g) == ~g.srcObject /\ g.liveStreams = 0

\* a clock request is waiting for its answer
SubmitPending == \E t \in DOMAIN tasks : t.kind = "submit"

\* confirmAndProcess resumes with the answer resp of the backend
Answered(resp) == ConfirmAndProcess_Submitted(resp)
Succeeds(resp) == ClockWithFace(resp).success

\* C11: when the backend accepts a clock request the gate is Idle afterwards,
\* with no camera stream live, no captured sample and no requested action; an
\* auto_clockout flag in the answer is shown as an info notice, and the step
\* shows no error and does not write the Failed status.
C11_SuccessReturnsToIdle ==
  [][SubmitPending => \A resp \in SubmitResponses :
       (Answered(resp) /\ Succeeds(resp))
       => /\ Idle(gate')
          /\ CameraReleased(gate')
          /\ resp.text.body.auto_clockout
               => \E toast \in gate'.toasts : toast.kind = "info" /\ toast.msg = "Auto clocked out"
          /\ \A toast \in gate'.toasts : toast.kind = "info"
          /\ gate'.statusText # "Failed"]_vars

\* the backend rejected the clock request for the store's hours
RejectedForHours(resp) ==
  resp.network /\ ~resp.ok /\ resp.text.json /\ resp.text.body.error_code \in HoursCodes

\* C12: the step of confirmAndProcess that handles a rejection with error_code
\* OUTSIDE_CLOCK_WINDOW or STORE_CLOSED_LOGIN starts a store-hours fetch itself:
\* one more GET /stores/ is waiting for its answer when the step ends.
C12_HoursRejectionRefetches ==
  [][SubmitPending => \A resp \in SubmitResponses :
       (Answered(resp) /\ RejectedForHours(resp))
       => Count("fetchStores")' = Count("fetchStores") + 1]_vars

\* the page's first fetch had answered; the rejection "Outside clock window"
\* was just handled and a store-hours fetch is waiting again
C12_Witness ==
  /\ hist.lastFetch # "none"
  /\ \E toast \in gate.toasts : toast.kind = "error" /\ toast.detail = "Outside clock window"
  /\ Count("fetchStores") = 1

\* what a step may rewrite when it only reports: the status line, the toasts
\* and the loading indicator
Report(g) == [statusText |-> g.statusText, toasts |-> g.toasts, loading |-> g.loading]
Reported(g, report) ==
  [g EXCEPT !.statusText = report.statusText, !.toasts = report.toasts,
            !.loading = report.loading]

\* C13: the step of confirmAndProcess that handles a rejected clock request
\* changes only the status line, the toasts and the loading indicator: the
\* attendance status card, the scheduled and pending status refreshes, the
\* requested action, the captured sample, the camera, the views, the confirm
\* button and the clock window are as before.
C13_RejectionIsFrame ==
  [][SubmitPending => \A resp \in SubmitResponses :
       (Answered(resp) /\ ~Succeeds(resp))
       => /\ Reported(gate', Report(gate)) = gate
          /\ Count("fetchStatus")' = Count("fetchStatus")
          /\ policy' = policy]_vars

\* "Outside clock window" was just reported while the status card shows an open
\* entry: the sample and the action are held, the preview is shown with confirm
\* enabled, the camera is off and no status refresh is scheduled
C13_Witness ==
  /\ \E toast \in gate.toasts : toast.kind = "error" /\ toast.detail = "Outside clock window"
  /\ gate.statusText = "Failed"
  /\ gate.statusCard = "shown"
  /\ gate.statusTimers = 0
  /\ gate.capturedData # NoSample
  /\ gate.currentAction = "clock-out"
  /\ gate.previewShown /\ SubmitEnabled(gate)
  /\ CameraReleased(gate)

\* the backend rejected the clock request with a JSON body {error, error_code, metadata}
RejectedWithBody(resp) == resp.network /\ ~resp.ok /\ resp.text.json

\* C14: for every rejection with a body {error, error_code, metadata}, the
\* outcome clockInWithFace / clockOutWithFace returns carries the body's
\* error_code and metadata, and a rejection for the store's hours is shown
\* under the title "Store Hours Restriction".
C14_RejectionCodeReachesGate ==
  [][SubmitPending => \A resp \in SubmitResponses :
       (Answered(resp) /\ RejectedWithBody(resp))
       => /\ ClockWithFace(resp).error_code = resp.text.body.error_code
          /\ ClockWithFace(resp).metadata = resp.text.body.metadata
          /\ RejectedForHours(resp)
               => \E toast \in gate'.toasts : toast.title = "Store Hours Restriction"]_vars

(* --------------------------- cancellation ----------------------------- *)
\* C15: whenever the clock buttons are hidden (the gate has left Idle) the cancel
\* control can be clicked, and the click, in that one step, leaves the gate Idle
\* with no camera stream live, no captured sample and no requested action.
C15_CancelReleasesEverything ==
  [][/\ ~gate.clockButtonsShown => CancelBtnClickable(page)
     /\ CancelCameraBtnClick => (Idle(gate') /\ CameraReleased(gate'))]_vars

\* the answer of a detection, recognition, enrollment or clock request arrives
\* and the function that awaited it resumes
AnswerArrives ==
  \/ \E ok \in BOOLEAN : CaptureFace_Detected(ok)
  \/ \E r \in RecognizeResults : CaptureFace_Recognized(r)
  \/ \E answer \in {"ok", "refused", "failed"} : AddAppearance_Added(answer)
  \/ \E r \in RecognizeResults : AddAppearance_Recognized(r)
  \/ \E r \in RecognizeResults : ConfirmAndProcess_Verified(r)
  \/ \E resp \in SubmitResponses : ConfirmAndProcess_Submitted(resp)

\* C16: an answer that arrives while the gate is Idle, its attempt having been
\* cancelled, is discarded: the gate stays Idle with the camera released, and
\* the confirm button, the recognition result and the status line are as before.
C16_LateAnswerDiscarded ==
  [][(Idle(gate) /\ AnswerArrives)
       => /\ Idle(gate')
          /\ gate'.srcObject = gate.srcObject /\ gate'.liveStreams = gate.liveStreams
          /\ gate'.confirmDisabled = gate.confirmDisabled
          /\ gate'.recognitionResult = gate.recognitionResult
          /\ gate'.statusText = gate.statusText]_vars

(* ------------------------------ the camera --------------------------- *)
\* the gate is in CapturingCamera: the camera view is the one shown
CapturingCamera(g) == g.cameraShown /\ ~g.clockButtonsShown /\ ~g.previewShown

\* C17: in every state in which the gate is not in CapturingCamera no camera
\* stream is live.
C17_NoStreamOutsideCapture ==
  ~CapturingCamera(gate) => CameraReleased(gate)

\* C18: the only camera stream that can be live is the one attached to the
\* video element: there is never a second one, and none that was replaced or
\* detached without its tracks having been stopped.
C18_AtMostOneStream ==
  gate.liveStreams = IF gate.srcObject THEN 1 ELSE 0

\* the capture step fails: no camera, no models, or no face in the frame
CaptureFails ==
  \/ ShowCamera_CameraDone(FALSE)
  \/ ShowCamera_ModelsDone(FALSE)
  \/ CaptureFace_Detected(FALSE)

\* C19: when the capture step fails while the gate is in CapturingCamera, the
\* gate is Idle afterwards with an error shown and no camera stream live.
C19_CaptureFailureReturnsToIdle ==
  [][(CapturingCamera(gate) /\ CaptureFails)
       => /\ Idle(gate')
          /\ CameraReleased(gate')
          /\ \E toast \in gate'.toasts : toast.kind = "error"]_vars

(* ----------------------------- sequencing ----------------------------- *)
\* the operations the gate has in flight: camera acquisition, model loading,
\* descriptor extraction, recognition, enrollment and clock requests
GateOperations == BagCardinality(tasks) - Count("fetchStores") - Count("fetchStatus")

\* C20: at most one operation of the gate is in flight at any time.
C20_OneOperationInFlight ==
  GateOperations <= 1

(* --------------------------- enrollment retry ------------------------- *)
\* a click on addAppearanceBtn runs a retry: the button exists, can be clicked
\* and has a click listener
RetryAvailable(g) == AddAppearanceBtnExists /\ PreviewButtonsClickable(g) /\ g.listeners > 0

\* the gate shows the preview of a held sample whose last recognition outcome
\* is the given one
InOutcome(outcome) ==
  gate.previewShown /\ gate.capturedData # NoSample /\ hist.heldOutcome = outcome

\* C21: while the gate is in LowConfidence or in NotRecognized for the held
\* sample, the enrollment retry can be started by the operator.
C21_RetryAvailableWhenUnrecognized ==
  (InOutcome("LowConfidence") \/ InOutcome("NotRecognized")) => RetryAvailable(gate)

\* the operator clicks addAppearanceBtn with a name typed and a sample held
RetryClick(name) == AddAppearanceBtnClick(name) /\ name # "" /\ gate.capturedData # NoSample

\* the enrollment ends without an added appearance: no name, or the request
\* was refused or failed
RetryAbandoned ==
  \/ AddAppearanceBtnClick("")
  \/ AddAppearance_Added("refused")
  \/ AddAppearance_Added("failed")

\* C22: a retry click with a name sends one add-appearance request with that
\* name and the held sample; a recognition request is sent only when an
\* add-appearance request succeeded, and for the sample that was enrolled; its
\* answer leaves submit enabled exactly for a match of 0.30 or more; an empty
\* name, a refused or a failed enrollment sends no recognition request and
\* changes nothing but what the page reports.
C22_RetryCycle ==
  [][/\ \A name \in {"Jane Doe"} :
          RetryClick(name)
          => tasks' = Started(Task("addAppearance", gate.capturedData, name, NoSample))
     /\ Count("reRecognize")' > Count("reRecognize")
          => \E t \in Pending("addAppearance") :
               /\ AddAppearance_Added("ok")
               /\ tasks' = Continued(t, Task("reRecognize", t.sample, "", NoSample))
     /\ \A r \in RecognizeResults :
          AddAppearance_Recognized(r)
          => (SubmitEnabled(gate') <=> Outcome(r) = "Confirmed")
     /\ RetryAbandoned
          => /\ Count("reRecognize")' = Count("reRecognize")
             /\ Reported(gate', Report(gate)) = gate]_vars

\* the page shows the outcome of an enrollment retry that did not confirm
RetryOutcomeShown(g) ==
  g.recognitionResult.heading \in {"Still Low Confidence", "Still Not Recognized"}

\* C23: a retry click sends exactly one add-appearance request, and none can
\* be sent once the page shows the outcome of a retry for the held sample.
C23_OneRetryPerCapture ==
  [][\A name \in {"Jane Doe"} :
       RetryClick(name)
       => /\ Count("addAppearance")' = Count("addAppearance") + 1
          /\ ~RetryOutcomeShown(gate)]_vars

(* -------------------------------- retake ------------------------------ *)
\* C24: the retake click discards the held sample and keeps the requested
\* action: when the camera is being acquired again the gate holds no sample.
C24_RetakeDiscardsSample ==
  [][RetakeBtnClick
       => /\ gate'.capturedData = NoSample
          /\ gate'.currentAction = gate.currentAction]_vars

(* ------------------------------ the timers ---------------------------- *)
\* what an attempt holds and shows: the requested action, the sample, the
\* camera stream, the confirm button and the status line
Attempt(g) ==
  [currentAction |-> g.currentAction, capturedData |-> g.capturedData,
   srcObject |-> g.srcObject, liveStreams |-> g.liveStreams,
   confirmDisabled |-> g.confirmDisabled, statusText |-> g.statusText]

\* the status poll fires or its request is answered
StatusPollRuns == StatusPoll \/ \E answer \in {"active", "none", "error"} : FetchCurrentClockStatus_Done(answer)

\* C25: when the status poll or the window timer runs during an attempt, the
\* requested action, the held sample, the camera stream, the confirm button
\* and the status line of the attempt are as before.
C25_TimersReadOnly ==
  [][(gate.currentAction # NoAction /\ (WindowTimer \/ StatusPollRuns))
       => Attempt(gate') = Attempt(gate)]_vars

(* ------------------------------- failures ----------------------------- *)
\* an operation of the gate, or the store-hours fetch, ends in failure
FailureArrives ==
  \/ ShowCamera_CameraDone(FALSE)
  \/ ShowCamera_ModelsDone(FALSE)
  \/ CaptureFace_Detected(FALSE)
  \/ CaptureFace_Recognized(NoMatch)
  \/ AddAppearance_Added("refused")
  \/ AddAppearance_Added("failed")
  \/ ConfirmAndProcess_Verified(NoMatch)
  \/ \E resp \in SubmitResponses : ~Succeeds(resp) /\ ConfirmAndProcess_Submitted(resp)
  \/ FetchStoreHours_Done(FALSE)

\* the page tells the operator of a failure: an error or warning toast, or the
\* "Face Not Recognized" result
FailureShown(g) ==
  \/ \E toast \in g.toasts : toast.kind \in {"error", "warning"}
  \/ g.recognitionResult.heading = "Face Not Recognized"

\* C26: no step ends in an unhandled error, and every failure of an operation
\* of the gate or of the store-hours fetch leaves a message for the operator
\* with the loading indicator cleared.
C26_FailuresHandled ==
  [][/\ ~gate'.unhandled
     /\ FailureArrives => (FailureShown(gate') /\ ~gate'.loading)]_vars

(* ------------------------------- submission --------------------------- *)
\* C27: when the verifying recognition of a confirm step answers with anything
\* but a match of 0.30 or more (no match, or a match below 0.30), the step
\* dispatches no clock request and shows the recognition error.
C27_VerificationNeedsConfidence ==
  [][\A r \in RecognizeResults :
       (ConfirmAndProcess_Verified(r) /\ Outcome(r) # "Confirmed")
       => /\ SubmitCount' = SubmitCount
          /\ \E toast \in gate'.toasts : toast.kind = "error"]_vars

\* C28: at most one confirm step is under way at a time: while a verification
\* or a clock request is pending no further one is started, so no more than
\* one clock request is outstanding.
C28_OneConfirmInFlight ==
  Count("verify") + SubmitCount <= 1

\* what the page may report for a clock request of the given action
MessagesFor(action) ==
  IF action = "clock-in"
  THEN {"Clocked In Successfully!", "Failed to clock in",
        "Failed to clock in, allowed window", "Auto clocked out"}
  ELSE {"Clocked Out Successfully!", "Failed to clock out",
        "Failed to clock out, allowed window", "Auto clocked out"}

\* C29: whenever the gate holds a sample the requested action is clock-in or
\* clock-out, and the answer to the one clock request outstanding is reported
\* for the action the request was sent for.
C29_ActionFollowsAttempt ==
  [][/\ gate'.capturedData # NoSample => gate'.currentAction # NoAction
     /\ \A t \in Pending("submit") :
          (SubmitCount = 1 /\ \E resp \in SubmitResponses : Answered(resp))
          => \A toast \in gate'.toasts : toast.msg \in MessagesFor(t.arg)]_vars

(* ================= properties of the Clock-Window Policy ============== *)
\* getDate(), getHours(), getMinutes() of a Date on the device
Fields(t) ==
  [day |-> LocalDay(t, deviceTz),
   hour |-> LocalMinuteOfDay(t, deviceTz) \div 60,
   min |-> LocalMinuteOfDay(t, deviceTz) % 60]

\* the hour and minute an "HH:MM" string stands for, read by position
RefHourMin(s) ==
  <<10 * DigitVal(s[1]) + DigitVal(s[2]), 10 * DigitVal(s[4]) + DigitVal(s[5])>>

\* 30 minutes before h:m of a day, as a wall-clock reading
RefStart(day, hm) ==
  IF hm[2] >= 30 THEN [day |-> day, hour |-> hm[1], min |-> hm[2] - 30]
  ELSE IF hm[1] >= 1 THEN [day |-> day, hour |-> hm[1] - 1, min |-> hm[2] + 30]
  ELSE [day |-> day - 1, hour |-> 23, min |-> hm[2] + 30]

\* 30 minutes after h:m of a day, as a wall-clock reading
RefEnd(day, hm) ==
  IF hm[2] < 30 THEN [day |-> day, hour |-> hm[1], min |-> hm[2] + 30]
  ELSE IF hm[1] < 23 THEN [day |-> day, hour |-> hm[1] + 1, min |-> hm[2] - 30]
  ELSE [day |-> day + 1, hour |-> 0, min |-> hm[2] - 30]

RefClosesNextDay(open, close) == close[1] * 60 + close[2] < open[1] * 60 + open[2]

\* an evaluation of updateClockButtonsState: every call of it
Evaluates == (\E ok \in BOOLEAN : FetchStoreHours_Done(ok)) \/ WindowTimer \/ Wait
Fetches == \E ok \in BOOLEAN : FetchStoreHours_Done(ok)

\* C4: the window fetchStoreHours computes starts 30 minutes before the opening
\* time on the day of the fetch, and ends 30 minutes after the closing time on
\* that day, or on the next day when the closing time is before the opening time.
C4_WindowIsReference ==
  [][(Fetches /\ policy'.storeHours.present) =>
       LET open == RefHourMin(serverStore.opening_time)
           close == RefHourMin(serverStore.closing_time)
           today == LocalDay(now, deviceTz)
       IN  /\ Fields(policy'.clockWindowStart) = RefStart(today, open)
           /\ Fields(policy'.clockWindowEnd)
                = RefEnd(IF RefClosesNextDay(open, close) THEN today + 1 ELSE today, close)]_vars

\* 22:00 / 02:00, just fetched, gave 21:30 today to 02:30 tomorrow
C4_Witness ==
  /\ policy.storeHours.present
  /\ elapsed = [ticks |-> 0, waits |-> 0]
  /\ serverStore.opening_time = TimeString(22, 0)
  /\ serverStore.closing_time = TimeString(2, 0)
  /\ Fields(policy.clockWindowStart)
       = [day |-> LocalDay(now, deviceTz), hour |-> 21, min |-> 30]
  /\ Fields(policy.clockWindowEnd)
       = [day |-> LocalDay(now, deviceTz) + 1, hour |-> 2, min |-> 30]

\* C5: with store hours loaded, every evaluation of updateClockButtonsState
\* leaves both clock buttons enabled if and only if start <= now <= end at the
\* instant it runs, and leaves both in the same state.
C5_EnabledIffWithinWindow ==
  [][(Evaluates /\ policy'.storeHours.present) =>
       /\ ~gate'.clockInDisabled
            <=> (policy'.clockWindowStart <= now' /\ now' <= policy'.clockWindowEnd)
       /\ gate'.clockOutDisabled = gate'.clockInDisabled]_vars

\* the timer evaluated at the very end of the window, hours after the fetch,
\* and left the buttons enabled
C5_Witness ==
  /\ policy.storeHours.present
  /\ now = policy.clockWindowEnd
  /\ elapsed.waits > 0
  /\ elapsed.ticks = 0
  /\ ~gate.clockInDisabled
  /\ ~gate.clockOutDisabled

\* C6: after a fetch that found no configured hours (a time absent, or no store
\* record) both clock actions are enabled, through every later re-evaluation.
C6_NoHoursAlwaysOpen ==
  hist.lastFetch = "nohours" => ~gate.clockInDisabled /\ ~gate.clockOutDisabled

\* no hours were found, hours passed with the timer firing, still enabled
C6_Witness ==
  /\ hist.lastFetch = "nohours"
  /\ elapsed.waits = MaxWaits
  /\ ~gate.clockInDisabled
  /\ ~gate.clockOutDisabled

\* C9: with store hours loaded, the clock buttons are enabled exactly when the
\* window of the then-current calendar day allows the action, as of an instant
\* at most one timer period ago (stated for stores that close on the day they
\* open, whose window of a day is the same whenever in the day it is computed).
C9_ButtonsFollowTodaysWindow ==
  (hist.lastFetch = "loaded"
     /\ ~RefClosesNextDay(RefHourMin(serverStore.opening_time),
                          RefHourMin(serverStore.closing_time)))
    => \E e \in {now - 1, now} :
         ~gate.clockInDisabled
           <=> IsWithinWindow(LoadedPolicy(serverStore, e, deviceTz), e)

\* C10: the decision fetchStoreHours makes at an instant for a store with hours
\* is the one every device makes at that instant, whatever its timezone.
C10_SameDecisionOnEveryDevice ==
  [][(Fetches /\ policy'.storeHours.present) =>
       \A tz \in DeviceTzs :
         ~gate'.clockInDisabled <=> IsWithinWindow(LoadedPolicy(serverStore, now, tz), now)]_vars

\* minutes since midnight of an hour and minute
RefMinutes(hm) == hm[1] * 60 + hm[2]

\* the wall-clock time of instant t, on a device in the store's timezone, is in
\* the span of an overnight store: at or after 30 minutes before opening, or
\* at or before 30 minutes after closing
InOvernightSpan(open, close, t) ==
  \/ LocalMinuteOfDay(t, deviceTz) >= RefMinutes(open) - 30
  \/ LocalMinuteOfDay(t, deviceTz) <= RefMinutes(close) + 30

\* C30: for a store that closes on the day after it opens, a fetch made at any
\* instant of the span from 30 minutes before opening to 30 minutes after the
\* next day's closing, after midnight included, leaves the clock buttons
\* enabled (device in the store's timezone).
C30_OvernightSpanPermitted ==
  [][(Fetches /\ policy'.storeHours.present
        /\ serverStore.timezone = "UTC" /\ deviceTz = TzOffset("UTC"))
       => LET open == RefHourMin(serverStore.opening_time)
              close == RefHourMin(serverStore.closing_time)
          IN  (RefClosesNextDay(open, close) /\ InOvernightSpan(open, close, now))
              => ~gate'.clockInDisabled /\ ~gate'.clockOutDisabled]_vars

====
